---- MODULE Spec2Model ----
(***************************************************************************)
(* A model of the Kilohearts bank container codec: kibank_extract.py (the  *)
(* Reader, Path Safety and extraction) and kibank_write.py (the Writer).   *)
(* Containers are byte sequences; text is a sequence of character codes    *)
(* (ASCII only, where UTF-8 decoding leaves every code unchanged); a       *)
(* filesystem path is a sequence of segments, each a sequence of codes.    *)
(***************************************************************************)
EXTENDS Integers, Sequences, FiniteSets, TLC

VARIABLES
    bank,       \* the container file's bytes
    prevBank,   \* the container written by the previous run of write_bank
    runs,       \* number of completed write_bank runs
    wrLocs,     \* location_names of the last write_bank run: <<rel, is_dir>>
    tree,       \* the input directory: file path (segments) -> contents
    meta,       \* the metadata blob build_metadata_bytes returns for the arguments
    rd,         \* the BankReader objects: reader -> its state
    fsDirs,     \* the output filesystem: directories that exist
    fsFiles,    \* the output filesystem: file path -> contents
    fs0,        \* the output filesystem when extract_bank was called
    overwrite,  \* extract_bank's overwrite argument
    pc,         \* position of write_bank / extract_bank
    idx,        \* extract_bank: index of the next entry of the running loop
    err,        \* extract_bank: the error that ended it
    counts      \* extract_bank: <<extracted, skipped>>

vars == <<bank, prevBank, runs, wrLocs, tree, meta, rd, fsDirs, fsFiles, fs0,
          overwrite, pc, idx, err, counts>>

(***************************************************************************)
(* Program constants                                                       *)
(***************************************************************************)
FILE_ID == <<137, 107, 72, 115>>
CORRUPTION_CHECK_BYTES == <<13, 10, 26, 10>>
FORMAT_VERSION == <<66, 97, 110, 107, 48, 48, 48, 49>>
PATH_SEPARATOR == 47
BACKSLASH == 92
NUL == 0
U64_SIZE == 8
LOC_SIZE == 24
METADATA_FILE_NAME == <<105, 110, 100, 101, 120, 46, 106, 115, 111, 110>>
HEADER_FIELDS == Len(FILE_ID) + Len(CORRUPTION_CHECK_BYTES) + Len(FORMAT_VERSION)
DOT == <<46>>
DOTDOT == <<46, 46>>

(***************************************************************************)
(* Text and byte helpers (Python's str / bytes methods)                    *)
(***************************************************************************)
Min(a, b) == IF a <= b THEN a ELSE b

\* s[from:] for a 0-based index
Tail0(s, from) == SubSeq(s, from + 1, Len(s))

\* str.replace(a, b) for single characters
Replace(s, a, b) == [i \in 1..Len(s) |-> IF s[i] = a THEN b ELSE s[i]]

\* str.lstrip(c)
RECURSIVE LStrip(_, _)
LStrip(s, c) == IF s # <<>> /\ s[1] = c THEN LStrip(Tail(s), c) ELSE s

\* bytes.find(c, start): the 0-based index of the first c at or after start, or -1
RECURSIVE Find(_, _, _)
Find(s, c, start) ==
    IF start >= Len(s) THEN -1
    ELSE IF s[start + 1] = c THEN start
    ELSE Find(s, c, start + 1)

\* str.split(c)
RECURSIVE Split(_, _)
Split(s, c) ==
    LET k == Find(s, c, 0) IN
    IF k = -1 THEN <<s>>
    ELSE <<SubSeq(s, 1, k)>> \o Split(Tail0(s, k + 1), c)

\* c.join(parts)
RECURSIVE Join(_, _)
Join(parts, c) ==
    IF parts = <<>> THEN <<>>
    ELSE IF Len(parts) = 1 THEN parts[1]
    ELSE parts[1] \o <<c>> \o Join(Tail(parts), c)

\* str.lower() on ASCII
Lower(s) == [i \in 1..Len(s) |-> IF s[i] >= 65 /\ s[i] <= 90 THEN s[i] + 32 ELSE s[i]]

\* a < b for Python strings: lexicographic by code
RECURSIVE StrLess(_, _)
StrLess(a, b) ==
    IF b = <<>> THEN FALSE
    ELSE IF a = <<>> THEN TRUE
    ELSE IF a[1] # b[1] THEN a[1] < b[1]
    ELSE StrLess(Tail(a), Tail(b))

\* struct.Struct("<Q").pack
RECURSIVE PackLE(_, _)
PackLE(n, k) == IF k = 0 THEN <<>> ELSE <<n % 256>> \o PackLE(n \div 256, k - 1)

U64Pack(n) == PackLE(n, U64_SIZE)

\* struct.Struct("<Q").unpack
RECURSIVE UnpackLE(_)
UnpackLE(b) == IF b = <<>> THEN 0 ELSE b[1] + 256 * UnpackLE(Tail(b))

U64Unpack(b) == UnpackLE(b)

\* struct.Struct("<QQQ").pack
LocPack(name_off, data_off, data_size) ==
    U64Pack(name_off) \o U64Pack(data_off) \o U64Pack(data_size)

RECURSIVE Flatten(_)
Flatten(ss) == IF ss = <<>> THEN <<>> ELSE ss[1] \o Flatten(Tail(ss))

(***************************************************************************)
(* Container Reader: kibank_extract.py                                     *)
(***************************************************************************)
\* fp.read(n) at position pos: as many of the n bytes as the file holds
FpRead(b, pos, n) == SubSeq(b, pos + 1, Min(pos + n, Len(b)))

\* Location.data_end
data_end(loc) == loc.data_off + loc.data_size

\* BankEntry.is_dir / is_file
is_dir(e) == e.data_size = 0
is_file(e) == e.data_size # 0

\* BankEntry.name_text: UTF-8 decoding with surrogateescape. An ASCII byte is its
\* own code; a byte that is not ASCII is taken as a lone invalid byte, which
\* decodes to the surrogate U+DC00 + byte.
name_text(e) == [i \in 1..Len(e.name) |->
                    IF e.name[i] < 128 THEN e.name[i] ELSE 56320 + e.name[i]]

\* sorted(file_entries, key=data_off): stable insertion by key
RECURSIVE InsertByOff(_, _)
InsertByOff(e, s) ==
    IF s = <<>> THEN <<e>>
    ELSE IF s[Len(s)].data_off <= e.data_off THEN Append(s, e)
    ELSE Append(InsertByOff(e, SubSeq(s, 1, Len(s) - 1)), s[Len(s)])

RECURSIVE SortByOff(_)
SortByOff(s) ==
    IF s = <<>> THEN <<>>
    ELSE InsertByOff(s[Len(s)], SortByOff(SubSeq(s, 1, Len(s) - 1)))

\* a faulty variant of the definition below: the walk over the entries in table
\* order, not sorted
OverlapBadMutant(entries) ==
    LET fe == SelectSeq(entries, is_file)
    IN  \E i \in 1..(Len(fe) - 1) : data_end(fe[i]) > fe[i + 1].data_off

\* the overlap walk over adjacent pairs of the sorted copy
OverlapBad(entries) ==
    LET fe == SortByOff(SelectSeq(entries, is_file))
    IN  \E i \in 1..(Len(fe) - 1) : data_end(fe[i]) > fe[i + 1].data_off

\* the name of one location: up to the first NUL, or to the block end
ResolveName(block, name_off) ==
    LET end0 == Find(block, NUL, name_off)
        end == IF end0 = -1 THEN Len(block) ELSE end0
    IN  SubSeq(block, name_off + 1, end)

\* a faulty variant of the definition below: an offset equal to the block length passes
NameOffBadMutant(loc, block_len) == loc.name_off < 0 \/ loc.name_off > block_len

\* the name-offset check of one location
NameOffBad(loc, block_len) == loc.name_off < 0 \/ loc.name_off >= block_len

ParseFail(why) == [status |-> why, entries |-> <<>>, pos |-> 0]

\* a faulty variant of the definition below: only the first four bytes of the
\* version are compared
HeaderCheckMutant(b) ==
    IF Len(FpRead(b, 0, 4)) # 4 THEN "eof"
    ELSE IF FpRead(b, 0, 4) # FILE_ID THEN "file_id"
    ELSE IF Len(FpRead(b, 4, 4)) # 4 THEN "eof"
    ELSE IF FpRead(b, 4, 4) # CORRUPTION_CHECK_BYTES THEN "corruption"
    ELSE IF Len(FpRead(b, 8, 8)) # 8 THEN "eof"
    ELSE IF SubSeq(FpRead(b, 8, 8), 1, 4) # SubSeq(FORMAT_VERSION, 1, 4) THEN "version"
    ELSE ""

\* the header checks, in order; "" when the header is accepted
HeaderCheck(b) ==
    LET id == FpRead(b, 0, Len(FILE_ID))
        cc == FpRead(b, Len(FILE_ID), Len(CORRUPTION_CHECK_BYTES))
        fv == FpRead(b, Len(FILE_ID) + Len(CORRUPTION_CHECK_BYTES), Len(FORMAT_VERSION))
    IN
    IF Len(id) # Len(FILE_ID) THEN "eof"
    ELSE IF id # FILE_ID THEN "file_id"
    ELSE IF Len(cc) # Len(CORRUPTION_CHECK_BYTES) THEN "eof"
    ELSE IF cc # CORRUPTION_CHECK_BYTES THEN "corruption"
    ELSE IF Len(fv) # Len(FORMAT_VERSION) THEN "eof"
    ELSE IF fv # FORMAT_VERSION THEN "version"
    ELSE ""

\* BankReader._parse over the file's bytes: the status, the entries and the
\* handle's position afterwards
BankReaderParse(b) ==
    LET hdr == HeaderCheck(b) IN
    IF hdr # "" THEN ParseFail(hdr)
    ELSE IF Len(FpRead(b, HEADER_FIELDS, U64_SIZE)) # U64_SIZE THEN ParseFail("eof")
    ELSE
    LET location_count == U64Unpack(FpRead(b, HEADER_FIELDS, U64_SIZE))
        tab == HEADER_FIELDS + U64_SIZE
        Rec(i) == FpRead(b, tab + LOC_SIZE * (i - 1), LOC_SIZE)
        blk == tab + LOC_SIZE * location_count
    IN
    IF \E i \in 1..location_count : Len(Rec(i)) # LOC_SIZE THEN ParseFail("eof")
    ELSE IF Len(FpRead(b, blk, U64_SIZE)) # U64_SIZE THEN ParseFail("eof")
    ELSE
    LET file_name_block_length == U64Unpack(FpRead(b, blk, U64_SIZE))
        file_name_block == FpRead(b, blk + U64_SIZE, file_name_block_length)
        locations == [i \in 1..location_count |->
                        [name_off  |-> U64Unpack(SubSeq(Rec(i), 1, 8)),
                         data_off  |-> U64Unpack(SubSeq(Rec(i), 9, 16)),
                         data_size |-> U64Unpack(SubSeq(Rec(i), 17, 24))]]
        entries == [i \in 1..location_count |->
                        [name      |-> ResolveName(file_name_block, locations[i].name_off),
                         name_off  |-> locations[i].name_off,
                         data_off  |-> locations[i].data_off,
                         data_size |-> locations[i].data_size]]
    IN
    IF Len(file_name_block) # file_name_block_length THEN ParseFail("eof")
    ELSE IF \E i \in 1..location_count : NameOffBad(locations[i], file_name_block_length)
         THEN ParseFail("bounds")
    ELSE IF OverlapBad(entries) THEN ParseFail("overlap")
    ELSE [status |-> "ok", entries |-> entries,
          pos |-> blk + U64_SIZE + file_name_block_length]

\* a faulty variant of the definition below: a short read is returned as it is
ReadExactMutant(b, pos, n) == [ok |-> TRUE, data |-> FpRead(b, pos, n)]

\* BankReader._read_exact at position pos
ReadExact(b, pos, n) ==
    LET got == FpRead(b, pos, n) IN
    IF Len(got) # n THEN [ok |-> FALSE, data |-> <<>>] ELSE [ok |-> TRUE, data |-> got]

\* a faulty variant of the definition below: no seek, the read starts where the handle is
SeekMutant(pos, data_off) == pos

\* fp.seek(data_off) in read_file_bytes: the position the read starts at
Seek(pos, data_off) == data_off

\* BankReader.read_file_bytes: the result and the handle's position afterwards
ReadFileBytes(b, pos, e) ==
    IF ~is_file(e) THEN [ret |-> [ok |-> TRUE, data |-> <<>>], pos |-> pos]
    ELSE LET at == Seek(pos, e.data_off) IN
         [ret |-> ReadExact(b, at, e.data_size),
          pos |-> at + Len(FpRead(b, at, e.data_size))]

\* a BankReader that was not constructed
NoReader == [status |-> "none", open |-> FALSE, entries |-> <<>>, pos |-> 0,
             from |-> 0, last |-> 0, ret |-> [ok |-> TRUE, data |-> <<>>]]

\* BankReader.__init__: open the file, parse it
NewReader(b) ==
    LET p == BankReaderParse(b) IN
    [status |-> p.status, open |-> TRUE, entries |-> p.entries, pos |-> p.pos,
     from |-> 0, last |-> 0, ret |-> [ok |-> TRUE, data |-> <<>>]]

(***************************************************************************)
(* Path Safety: safe_join (kibank_extract.py), sanitize_bank_rel           *)
(* (kibank_write.py)                                                       *)
(***************************************************************************)
\* a faulty variant of the segment loop: a ".." segment is dropped like "."
RECURSIVE SegLoopMutant(_, _)
SegLoopMutant(segs, acc) ==
    IF segs = <<>> THEN [ok |-> TRUE, parts |-> acc]
    ELSE IF segs[1] \in {<<>>, DOT, DOTDOT} THEN SegLoopMutant(Tail(segs), acc)
    ELSE SegLoopMutant(Tail(segs), Append(acc, segs[1]))

\* a faulty variant of the segment loop: a ".." segment is kept like a name
RECURSIVE SegLoopKeep(_, _)
SegLoopKeep(segs, acc) ==
    IF segs = <<>> THEN [ok |-> TRUE, parts |-> acc]
    ELSE IF segs[1] \in {<<>>, DOT} THEN SegLoopKeep(Tail(segs), acc)
    ELSE SegLoopKeep(Tail(segs), Append(acc, segs[1]))

\* the segment loop: drop "" and ".", stop with an error at ".."
RECURSIVE SegLoop(_, _)
SegLoop(segs, acc) ==
    IF segs = <<>> THEN [ok |-> TRUE, parts |-> acc]
    ELSE IF segs[1] \in {<<>>, DOT} THEN SegLoop(Tail(segs), acc)
    ELSE IF segs[1] = DOTDOT THEN [ok |-> FALSE, parts |-> <<>>]
    ELSE SegLoop(Tail(segs), Append(acc, segs[1]))

\* rel.replace("\\", "/").lstrip("/")
StripLead(rel) == LStrip(Replace(rel, BACKSLASH, PATH_SEPARATOR), PATH_SEPARATOR)

\* Path.resolve() on a filesystem without symbolic links
RECURSIVE Resolve(_, _)
Resolve(p, acc) ==
    IF p = <<>> THEN acc
    ELSE IF p[1] = DOTDOT
         THEN Resolve(Tail(p), IF acc = <<>> THEN acc ELSE SubSeq(acc, 1, Len(acc) - 1))
    ELSE Resolve(Tail(p), Append(acc, p[1]))

IsPrefix(a, b) == Len(a) <= Len(b) /\ SubSeq(b, 1, Len(a)) = a

\* safe_join(base, bank_rel): err is "" and path the result, or err names the error
safe_join(base, bank_rel) ==
    LET loop == SegLoop(Split(StripLead(bank_rel), PATH_SEPARATOR), <<>>)
        out == base \o loop.parts
        base_res == Resolve(base, <<>>)
        out_res == Resolve(out, <<>>)
    IN
    IF ~loop.ok THEN [err |-> "traversal", path |-> <<>>]
    ELSE IF base_res # out_res /\ ~IsPrefix(base_res, out_res)
         THEN [err |-> "escape", path |-> <<>>]
    ELSE [err |-> "", path |-> out]

\* sanitize_bank_rel(rel)
sanitize_bank_rel(rel) ==
    LET loop == SegLoop(Split(StripLead(rel), PATH_SEPARATOR), <<>>)
    IN  [ok |-> loop.ok, rel |-> Join(loop.parts, PATH_SEPARATOR)]

(***************************************************************************)
(* The output filesystem of extract_bank                                   *)
(***************************************************************************)
Parent(p) == IF p = <<>> THEN p ELSE SubSeq(p, 1, Len(p) - 1)

Prefixes(p) == {SubSeq(p, 1, k) : k \in 0..Len(p)}

\* Path.mkdir(parents=True, exist_ok=True): fails when the path or an ancestor is
\* a file
MkdirOk(files, p) == Prefixes(p) \cap DOMAIN files = {}
MkdirDirs(dirs, p) == dirs \cup Prefixes(p)

\* Path.exists()
Exists(dirs, files, p) == p \in dirs \/ p \in DOMAIN files

\* open(target, "wb") and write(data)
WriteFile(files, p, data) ==
    [q \in DOMAIN files \cup {p} |-> IF q = p THEN data ELSE files[q]]

NoFiles == [q \in {} |-> <<>>]

(***************************************************************************)
(* Container Writer: kibank_write.py                                       *)
(***************************************************************************)
BACKGROUND_FILE_STEM == <<98, 97, 99, 107, 103, 114, 111, 117, 110, 100>>
BackgroundExts == << <<112, 110, 103>>, <<106, 112, 103>>, <<106, 112, 101, 103>> >>

\* sorted(files, key=lambda f: f.rel_posix.lower()): stable insertion by key
RECURSIVE InsertByLower(_, _)
InsertByLower(f, s) ==
    IF s = <<>> THEN <<f>>
    ELSE IF ~StrLess(Lower(f.rel_posix), Lower(s[Len(s)].rel_posix)) THEN Append(s, f)
    ELSE Append(InsertByLower(f, SubSeq(s, 1, Len(s) - 1)), s[Len(s)])

RECURSIVE SortByLower(_)
SortByLower(s) ==
    IF s = <<>> THEN <<>>
    ELSE InsertByLower(s[Len(s)], SortByLower(SubSeq(s, 1, Len(s) - 1)))

\* sorted(dirs) for a set of strings
RECURSIVE SortedSet(_)
SortedSet(S) ==
    IF S = {} THEN <<>>
    ELSE LET m == CHOOSE x \in S : \A y \in S \ {x} : StrLess(x, y)
         IN  <<m>> \o SortedSet(S \ {m})

\* the ancestor directories of a sanitized relative path, as strings
AncestorDirs(rel) ==
    LET segs == Split(rel, PATH_SEPARATOR)
    IN  {Join(SubSeq(segs, 1, k), PATH_SEPARATOR) : k \in 1..(Len(segs) - 1)}

\* collect_tree over the files as the enumerator yields them (order: a sequence
\* of the tree's file paths)
collect_tree(t, order) ==
    LET san == [i \in 1..Len(order) |->
                    sanitize_bank_rel(Join(order[i], PATH_SEPARATOR))]
        files == [i \in 1..Len(order) |->
                    [rel_posix |-> san[i].rel, size |-> Len(t[order[i]]),
                     data |-> t[order[i]]]]
        dirs == UNION {AncestorDirs(san[i].rel) : i \in 1..Len(order)}
    IN  [ok |-> \A i \in 1..Len(order) : san[i].ok,
         dir_entries |-> SortedSet(dirs),
         file_entries |-> SortByLower(files)]

\* ensure_metadata_and_background
ensure_metadata_and_background(t, files, meta_bytes) ==
    LET existing == {Lower(files[i].rel_posix) : i \in 1..Len(files)}
        withMeta ==
            IF Lower(METADATA_FILE_NAME) \notin existing
            THEN Append(files, [rel_posix |-> METADATA_FILE_NAME,
                                size |-> Len(meta_bytes), data |-> meta_bytes])
            ELSE files
        BgName(k) == BACKGROUND_FILE_STEM \o DOT \o BackgroundExts[k]
        found == {k \in 1..Len(BackgroundExts) : <<BgName(k)>> \in DOMAIN t}
        first == CHOOSE k \in found : \A j \in found : k <= j
        withBg ==
            IF found # {} /\ Lower(sanitize_bank_rel(BgName(first)).rel) \notin existing
            THEN Append(withMeta, [rel_posix |-> sanitize_bank_rel(BgName(first)).rel,
                                   size |-> Len(t[<<BgName(first)>>]),
                                   data |-> t[<<BgName(first)>>]])
            ELSE withMeta
    IN  SortByLower(withBg)

\* file_map[rel]: a dict built in list order keeps the last entry of a key
FileMap(file_entries, rel) ==
    LET hits == {i \in 1..Len(file_entries) : file_entries[i].rel_posix = rel}
    IN  file_entries[CHOOSE i \in hits : \A j \in hits : j <= i]

\* location_names of write_bank
LocationNames(dir_entries, file_entries) ==
    [i \in 1..Len(dir_entries) |-> [rel |-> dir_entries[i], is_dir |-> TRUE]]
    \o [i \in 1..Len(file_entries) |-> [rel |-> file_entries[i].rel_posix,
                                         is_dir |-> FALSE]]

\* str.encode("utf-8", errors="surrogateescape"): the inverse of name_text
EncodeName(s) == [i \in 1..Len(s) |-> IF s[i] < 128 THEN s[i] ELSE s[i] - 56320]

\* a faulty variant of the definition below: the filename_block_length field is not counted
DataStartMutant(location_count, file_name_block_length) ==
    HEADER_FIELDS + U64_SIZE + location_count * LOC_SIZE + file_name_block_length

\* data_start of write_bank
DataStart(location_count, file_name_block_length) ==
    (HEADER_FIELDS + U64_SIZE) + location_count * LOC_SIZE + U64_SIZE
        + file_name_block_length

\* sizes[1] + ... + sizes[n]: the running cur_data_off
RECURSIVE SumTo(_, _)
SumTo(sizes, n) == IF n = 0 THEN 0 ELSE SumTo(sizes, n - 1) + sizes[n]

\* the bytes write_bank writes for its location_names and file_entries
BankBytes(location_names, file_entries) ==
    LET location_count == Len(location_names)
        names == [i \in 1..location_count |->
                    EncodeName(sanitize_bank_rel(location_names[i].rel).rel) \o <<NUL>>]
        name_offsets == [i \in 1..location_count |->
                            Len(Flatten(SubSeq(names, 1, i - 1)))]
        name_block == Flatten(names)
        data_start == DataStart(location_count, Len(name_block))
        Size(i) == IF location_names[i].is_dir THEN 0
                   ELSE FileMap(file_entries, location_names[i].rel).size
        SizesBefore(i) == SumTo([j \in 1..location_count |-> Size(j)], i - 1)
        locations == [i \in 1..location_count |->
                        IF location_names[i].is_dir
                        THEN LocPack(name_offsets[i], 0, 0)
                        ELSE LocPack(name_offsets[i], data_start + SizesBefore(i), Size(i))]
        blobs == [i \in 1..location_count |->
                    IF location_names[i].is_dir THEN <<>>
                    ELSE LET fe == FileMap(file_entries, location_names[i].rel)
                         IN  SubSeq(fe.data, 1, fe.size)]
    IN  FILE_ID \o CORRUPTION_CHECK_BYTES \o FORMAT_VERSION \o U64Pack(location_count)
        \o Flatten(locations)
        \o U64Pack(Len(name_block)) \o name_block
        \o Flatten(blobs)

\* write_bank(input_dir, output_bank, ...) for one enumeration order
write_bank(t, order, meta_bytes) ==
    LET ct == collect_tree(t, order)
        file_entries == ensure_metadata_and_background(t, ct.file_entries, meta_bytes)
        location_names == LocationNames(ct.dir_entries, file_entries)
    IN  [ok |-> ct.ok /\ \A i \in 1..Len(location_names) :
                            sanitize_bank_rel(location_names[i].rel).ok,
         location_names |-> location_names,
         bytes |-> BankBytes(location_names, file_entries)]

(***************************************************************************)
(* Bounds and inputs                                                       *)
(***************************************************************************)
MaxFiles == 2       \* files of an input directory
MaxRuns == 2        \* runs of write_bank over one input directory
MaxAdv == 2         \* entries of a crafted container handed to extract_bank
MaxFlips == 2       \* header bytes changed at once
MaxBlock == 3       \* length of a crafted filename block
MaxNameRecs == 2    \* location records over a crafted filename block
MaxLoc == 3         \* location records with crafted data ranges
MaxReadRecs == 2    \* location records of a container read by read_file_bytes

Readers == {1, 2}
OutDir == << <<111, 117, 116>> >>

\* a container laid out as the format says, from location records, a filename
\* block and a data region
Craft(recs, block, data) ==
    FILE_ID \o CORRUPTION_CHECK_BYTES \o FORMAT_VERSION \o U64Pack(Len(recs))
    \o Flatten([i \in 1..Len(recs) |->
                  LocPack(recs[i].name_off, recs[i].data_off, recs[i].data_size)])
    \o U64Pack(Len(block)) \o block \o data

\* where the data region of such a container starts
IndexLen(n, l) == HEADER_FIELDS + U64_SIZE + LOC_SIZE * n + U64_SIZE + l

SeqsUpTo(S, n) == UNION {[1..k -> S] : k \in 0..n}

\* one valid container: the file "a" holding one byte
ValidBank ==
    Craft(<<[name_off |-> 0, data_off |-> IndexLen(1, 2), data_size |-> 1]>>,
          <<97, NUL>>, <<7>>)

\* ValidBank with the bytes at the positions of F changed (v selects the change)
Flipped(F, v) ==
    [i \in 1..Len(ValidBank) |->
        IF i \in F THEN (IF v[i] = 0 THEN 0 ELSE (ValidBank[i] + 1) % 256)
        ELSE ValidBank[i]]

HeaderBanks ==
    {Flipped(F, v) : F \in {G \in SUBSET (1..HEADER_FIELDS) : Cardinality(G) <= MaxFlips},
                     v \in {[i \in 1..HEADER_FIELDS |-> 0], [i \in 1..HEADER_FIELDS |-> 1],
                            [i \in 1..HEADER_FIELDS |-> i % 2]}}
    \cup {SubSeq(ValidBank, 1, k) : k \in 0..Len(ValidBank)}

\* containers whose records point anywhere into (or just past) the filename
\* block; every record is a one-byte file, the files side by side
NameBanks ==
    {Craft([i \in 1..Len(offs) |->
               [name_off |-> offs[i],
                data_off |-> IndexLen(Len(offs), Len(block)) + (i - 1),
                data_size |-> 1]],
           block, [i \in 1..Len(offs) |-> 7]) :
        offs \in SeqsUpTo(0..(MaxBlock + 1), MaxNameRecs),
        block \in SeqsUpTo({NUL, 97}, MaxBlock)}

\* containers whose records carry data ranges <<offset in the data region, size>>
\* over a three-byte data region: directories, touching, nested and equal
\* ranges, a range past the end; the first record's name offset is in bounds
\* or not
RelRanges == {<<0, 0>>, <<0, 1>>, <<0, 3>>, <<1, 1>>, <<1, 2>>, <<2, 1>>, <<2, 2>>}

RangeBanks ==
    {Craft([i \in 1..Len(rs) |->
               [name_off |-> IF i = 1 THEN first ELSE 0,
                data_off |-> IndexLen(Len(rs), 2) + rs[i][1],
                data_size |-> rs[i][2]]],
           <<97, NUL>>, <<11, 22, 33>>) :
        rs \in SeqsUpTo(RelRanges, MaxLoc), first \in {0, 2}}

ParseBanks == HeaderBanks \cup NameBanks \cup RangeBanks

\* containers for payload retrieval: directories, files inside the data region
\* and files running past its end
ReadShapes == {<<0, 0>>, <<0, 2>>, <<1, 1>>, <<2, 1>>, <<2, 2>>}

ReadBanks ==
    {Craft([i \in 1..Len(rs) |->
               [name_off |-> 0,
                data_off |-> IndexLen(Len(rs), 2) + rs[i][1],
                data_size |-> rs[i][2]]],
           <<97, NUL>>, <<11, 22, 33>>) :
        rs \in SeqsUpTo(ReadShapes, MaxReadRecs)}

\* container-internal names an extraction can meet
NameUpX == <<46, 46, 47, 120>>
NameUpUpB == <<97, 47, 46, 46, 47, 46, 46, 47, 98>>
NameEtcPasswd == <<47, 101, 116, 99, 47, 112, 97, 115, 115, 119, 100>>
NameADotB == <<97, 47, 46, 47, 98>>
NameAB == <<97, 47, 98>>
NameABackB == <<97, 92, 98>>
NameAUpB == <<97, 47, 46, 46, 47, 98>>
NameEmpty == <<>>
AdvNames == {NameUpX, NameUpUpB, NameEtcPasswd, NameADotB, NameAUpB, NameABackB,
             NameEmpty}

\* a container holding the entries es (name, is_dir), each file one byte long
AdvBank(es) ==
    LET names == [i \in 1..Len(es) |-> es[i].name \o <<NUL>>]
        block == Flatten(names)
        nfiles(i) == Cardinality({j \in 1..(i - 1) : ~es[j].is_dir})
    IN  Craft([i \in 1..Len(es) |->
                  [name_off |-> Len(Flatten(SubSeq(names, 1, i - 1))),
                   data_off |-> IF es[i].is_dir THEN 0
                                ELSE IndexLen(Len(es), Len(block)) + nfiles(i),
                   data_size |-> IF es[i].is_dir THEN 0 ELSE 1]],
              block, [i \in 1..nfiles(Len(es) + 1) |-> 40 + i])

AdvBanks == {AdvBank(es) : es \in SeqsUpTo([name : AdvNames, is_dir : BOOLEAN], MaxAdv)}

\* input directories: files at these paths, no file under another file
SegA == <<97>>
SegUpperA == <<65>>
SegB == <<98>>
TreePaths == {<<SegA>>, <<SegUpperA>>, <<SegB>>, <<SegA, SegB>>, <<SegUpperA, SegB>>,
              <<SegA, SegA, SegB>>, <<METADATA_FILE_NAME>>}
Contents == {<<>>, <<7, 9>>}
MetaBlobs == {<<123, 125>>}

Trees ==
    UNION {[D -> Contents] :
            D \in {E \in SUBSET TreePaths :
                     /\ Cardinality(E) <= MaxFiles
                     /\ \A p \in E, q \in E : p # q => ~IsPrefix(p, q)}}

\* the orders in which the enumerator can yield the files of a directory
Orders(S) ==
    {o \in [1..Cardinality(S) -> S] : \A i, j \in 1..Cardinality(S) : i # j => o[i] # o[j]}

(***************************************************************************)
(* Actions                                                                 *)
(***************************************************************************)
\* br.close() in extract_bank's finally
Closed(r) == [r EXCEPT !.open = FALSE]

\* extract_bank ends with an exception raised inside the try block
ExtractRaise(why) ==
    /\ pc' = "failed"
    /\ err' = why
    /\ rd' = [rd EXCEPT ![1] = Closed(rd[1])]

\* BankReader(path) by a caller other than extract_bank
BankReaderInit(r) ==
    /\ pc = "reader"
    /\ rd[r].status = "none"
    /\ rd' = [rd EXCEPT ![r] = NewReader(bank)]
    /\ UNCHANGED <<bank, prevBank, runs, wrLocs, tree, meta, fsDirs, fsFiles, fs0,
                   overwrite, pc, idx, err, counts>>

\* reader.read_file_bytes(reader.entries[i])
ReadFile(r, i) ==
    /\ pc = "reader"
    /\ rd[r].status = "ok"
    /\ i \in 1..Len(rd[r].entries)
    /\ LET res == ReadFileBytes(bank, rd[r].pos, rd[r].entries[i]) IN
       rd' = [rd EXCEPT ![r] = [@ EXCEPT !.pos = res.pos, !.ret = res.ret,
                                         !.last = i, !.from = rd[r].pos]]
    /\ UNCHANGED <<bank, prevBank, runs, wrLocs, tree, meta, fsDirs, fsFiles, fs0,
                   overwrite, pc, idx, err, counts>>

\* write_bank(input_dir, output_bank, ...), the enumerator yielding some order
WriteBank ==
    /\ pc \in {"write", "start"}
    /\ runs < MaxRuns
    /\ \E order \in Orders(DOMAIN tree) :
         LET w == write_bank(tree, order, meta) IN
         IF w.ok
         THEN /\ bank' = w.bytes
              /\ prevBank' = bank
              /\ wrLocs' = w.location_names
              /\ runs' = runs + 1
              /\ pc' = "start"
              /\ err' = err
         ELSE /\ pc' = "failed"
              /\ err' = "traversal"
              /\ UNCHANGED <<bank, prevBank, wrLocs, runs>>
    /\ UNCHANGED <<tree, meta, rd, fsDirs, fsFiles, fs0, overwrite, idx, counts>>

\* extract_bank: out_dir.mkdir, br = BankReader(bank_path)
ExtractBegin ==
    /\ pc = "start"
    /\ fs0' = <<fsDirs, fsFiles>>
    /\ IF ~MkdirOk(fsFiles, OutDir)
       THEN /\ pc' = "failed"
            /\ err' = "fs"
            /\ UNCHANGED <<rd, fsDirs, idx>>
       ELSE /\ fsDirs' = MkdirDirs(fsDirs, OutDir)
            /\ rd' = [rd EXCEPT ![1] = NewReader(bank)]
            /\ IF rd'[1].status = "ok"
               THEN pc' = "dirs" /\ idx' = 1 /\ err' = err
               ELSE pc' = "failed" /\ idx' = idx /\ err' = rd'[1].status
    /\ UNCHANGED <<bank, prevBank, runs, wrLocs, tree, meta, fsFiles, overwrite, counts>>

\* one pass of the loop that creates the directories
ExtractDir ==
    /\ pc = "dirs"
    /\ idx <= Len(rd[1].entries)
    /\ LET e == rd[1].entries[idx]
           target_dir == safe_join(OutDir, name_text(e))
       IN
       IF ~is_dir(e)
       THEN idx' = idx + 1 /\ UNCHANGED <<pc, err, rd, fsDirs>>
       ELSE IF target_dir.err # ""
       THEN ExtractRaise(target_dir.err) /\ UNCHANGED <<idx, fsDirs>>
       ELSE IF ~MkdirOk(fsFiles, target_dir.path)
       THEN ExtractRaise("fs") /\ UNCHANGED <<idx, fsDirs>>
       ELSE /\ fsDirs' = MkdirDirs(fsDirs, target_dir.path)
            /\ idx' = idx + 1
            /\ UNCHANGED <<pc, err, rd>>
    /\ UNCHANGED <<bank, prevBank, runs, wrLocs, tree, meta, fsFiles, fs0, overwrite,
                   counts>>

\* the directory loop is over: extracted = 0, skipped = 0, the file loop starts
ExtractDirsEnd ==
    /\ pc = "dirs"
    /\ idx > Len(rd[1].entries)
    /\ pc' = "files"
    /\ idx' = 1
    /\ counts' = <<0, 0>>
    /\ UNCHANGED <<bank, prevBank, runs, wrLocs, tree, meta, rd, fsDirs, fsFiles, fs0,
                   overwrite, err>>

\* one pass of the loop that extracts the files
ExtractFile ==
    /\ pc = "files"
    /\ idx <= Len(rd[1].entries)
    /\ LET e == rd[1].entries[idx]
           target == safe_join(OutDir, name_text(e))
           res == ReadFileBytes(bank, rd[1].pos, e)
       IN
       IF ~is_file(e)
       THEN idx' = idx + 1 /\ UNCHANGED <<pc, err, rd, fsDirs, fsFiles, counts>>
       ELSE IF target.err # ""
       THEN ExtractRaise(target.err) /\ UNCHANGED <<idx, fsDirs, fsFiles, counts>>
       ELSE IF ~MkdirOk(fsFiles, Parent(target.path))
       THEN ExtractRaise("fs") /\ UNCHANGED <<idx, fsDirs, fsFiles, counts>>
       ELSE
       /\ fsDirs' = MkdirDirs(fsDirs, Parent(target.path))
       /\ IF Exists(fsDirs', fsFiles, target.path) /\ ~overwrite
          THEN /\ counts' = <<counts[1], counts[2] + 1>>
               /\ idx' = idx + 1
               /\ UNCHANGED <<pc, err, rd, fsFiles>>
          ELSE IF ~res.ret.ok
          THEN /\ pc' = "failed"
               /\ err' = "eof"
               /\ rd' = [rd EXCEPT ![1] = Closed([@ EXCEPT !.pos = res.pos])]
               /\ UNCHANGED <<idx, fsFiles, counts>>
          ELSE IF target.path \in fsDirs'
          THEN /\ pc' = "failed"
               /\ err' = "fs"
               /\ rd' = [rd EXCEPT ![1] = Closed([@ EXCEPT !.pos = res.pos])]
               /\ UNCHANGED <<idx, fsFiles, counts>>
          ELSE /\ fsFiles' = WriteFile(fsFiles, target.path, res.ret.data)
               /\ rd' = [rd EXCEPT ![1] = [@ EXCEPT !.pos = res.pos]]
               /\ counts' = <<counts[1] + 1, counts[2]>>
               /\ idx' = idx + 1
               /\ UNCHANGED <<pc, err>>
    /\ UNCHANGED <<bank, prevBank, runs, wrLocs, tree, meta, fs0, overwrite>>

\* the file loop is over: the counts are printed, the reader is closed
ExtractEnd ==
    /\ pc = "files"
    /\ idx > Len(rd[1].entries)
    /\ pc' = "done"
    /\ rd' = [rd EXCEPT ![1] = Closed(rd[1])]
    /\ UNCHANGED <<bank, prevBank, runs, wrLocs, tree, meta, fsDirs, fsFiles, fs0,
                   overwrite, idx, err, counts>>

(***************************************************************************)
(* Specifications                                                          *)
(***************************************************************************)
InitIdle ==
    /\ prevBank = <<>>
    /\ runs = 0
    /\ wrLocs = <<>>
    /\ rd = [r \in Readers |-> NoReader]
    /\ fs0 = <<{}, NoFiles>>
    /\ idx = 0
    /\ err = ""
    /\ counts = <<0, 0>>

\* write_bank over an input directory, then extract_bank of the written
\* container into a fresh directory
Init ==
    /\ InitIdle
    /\ tree \in Trees
    /\ meta \in MetaBlobs
    /\ bank = <<>>
    /\ fsDirs = {<<>>}
    /\ fsFiles = NoFiles
    /\ overwrite \in BOOLEAN
    /\ pc = "write"

Extract == ExtractBegin \/ ExtractDir \/ ExtractDirsEnd \/ ExtractFile \/ ExtractEnd

Next == WriteBank \/ Extract

Spec == Init /\ [][Next]_vars

\* extract_bank of a crafted container into a directory that holds a/b already
InitExtract ==
    /\ InitIdle
    /\ tree = NoFiles
    /\ meta = <<>>
    /\ bank \in AdvBanks
    /\ fsDirs = Prefixes(OutDir \o <<SegA>>)
    /\ fsFiles = WriteFile(NoFiles, OutDir \o <<SegA, SegB>>, <<5>>)
    /\ overwrite \in BOOLEAN
    /\ pc = "start"

SpecExtract == InitExtract /\ [][Extract]_vars

\* BankReader over a crafted container
InitParse ==
    /\ InitIdle
    /\ tree = NoFiles
    /\ meta = <<>>
    /\ bank \in ParseBanks
    /\ fsDirs = {<<>>}
    /\ fsFiles = NoFiles
    /\ overwrite = FALSE
    /\ pc = "reader"

NextParse == BankReaderInit(1)

SpecParse == InitParse /\ [][NextParse]_vars

\* two BankReaders over one container, each with its own handle, their
\* read_file_bytes calls interleaved
InitRead ==
    /\ InitIdle
    /\ tree = NoFiles
    /\ meta = <<>>
    /\ bank \in ReadBanks
    /\ fsDirs = {<<>>}
    /\ fsFiles = NoFiles
    /\ overwrite = FALSE
    /\ pc = "reader"

NextRead ==
    \E r \in Readers :
        \/ BankReaderInit(r)
        \/ \E i \in 1..MaxReadRecs : ReadFile(r, i)

SpecRead == InitRead /\ [][NextRead]_vars

(***************************************************************************)
(* Properties                                                              *)
(***************************************************************************)
\* the fields of a container as the format lays them out
RawCount(b) == U64Unpack(SubSeq(b, 17, 24))
RawRec(b, i) ==
    [name_off  |-> U64Unpack(SubSeq(b, 24 * i + 1, 24 * i + 8)),
     data_off  |-> U64Unpack(SubSeq(b, 24 * i + 9, 24 * i + 16)),
     data_size |-> U64Unpack(SubSeq(b, 24 * i + 17, 24 * i + 24))]
RawBlockLen(b) == U64Unpack(SubSeq(b, 24 + 24 * RawCount(b) + 1, 32 + 24 * RawCount(b)))
RawBlock(b) == SubSeq(b, 32 + 24 * RawCount(b) + 1, 32 + 24 * RawCount(b) + RawBlockLen(b))
GoodHeader == <<137, 107, 72, 115, 13, 10, 26, 10, 66, 97, 110, 107, 48, 48, 48, 49>>

\* the header is valid and the file holds the whole index
WholeIndex(b) ==
    /\ Len(b) >= 32
    /\ SubSeq(b, 1, 16) = GoodHeader
    /\ Len(b) >= 32 + 24 * RawCount(b)
    /\ Len(b) >= 32 + 24 * RawCount(b) + RawBlockLen(b)

\* C1: pc = "done" after write_bank and extract_bank into a fresh directory
\* implies every file of the input tree is a file of the output directory at
\* the same relative path with the same bytes, and the Reader's entries (name,
\* file or directory) are the Writer's location_names.
C1_RoundTrip ==
    pc = "done" =>
        /\ \A p \in DOMAIN tree :
              /\ OutDir \o p \in DOMAIN fsFiles
              /\ fsFiles[OutDir \o p] = tree[p]
        /\ Len(rd[1].entries) = Len(wrLocs)
        /\ \A i \in 1..Len(wrLocs) :
              /\ name_text(rd[1].entries[i]) = wrLocs[i].rel
              /\ is_dir(rd[1].entries[i]) = wrLocs[i].is_dir

\* C6: two runs of write_bank over the same input directory and metadata leave
\* the same bytes, whatever order the enumerator yielded the files in.
C6_Determinism == runs >= 2 => bank = prevBank

\* C9: a container written by write_bank has its directory records first, each
\* with data_offset = data_size = 0; its first file record at 32 + 24*N + L, each
\* later file record where the previous one ends, the last one ending at the end
\* of the file; and BankReader finds no bounds and no overlap error in it.
C9_Layout ==
    runs >= 1 =>
        LET N == RawCount(bank)
            L == RawBlockLen(bank)
            R(i) == RawRec(bank, i)
        IN
        /\ N = Len(wrLocs)
        /\ \A i, j \in 1..N : i < j /\ wrLocs[j].is_dir => wrLocs[i].is_dir
        /\ \A i \in 1..N : wrLocs[i].is_dir => R(i).data_off = 0 /\ R(i).data_size = 0
        /\ \A i \in 1..N : ~wrLocs[i].is_dir =>
              /\ (i = 1 \/ wrLocs[i - 1].is_dir) => R(i).data_off = 32 + 24 * N + L
              /\ (i > 1 /\ ~wrLocs[i - 1].is_dir) =>
                    R(i).data_off = R(i - 1).data_off + R(i - 1).data_size
              /\ i = N => R(i).data_off + R(i).data_size = Len(bank)
        /\ BankReaderParse(bank).status \notin {"bounds", "overlap"}

C9_Witness ==
    /\ runs >= 1
    /\ \E i, j, k \in 1..Len(wrLocs) :
          /\ wrLocs[i].is_dir /\ ~wrLocs[j].is_dir /\ ~wrLocs[k].is_dir /\ j < k
          /\ RawRec(bank, j).data_size > 0
          /\ RawRec(bank, k).data_size > 0

(* Extraction *)
\* the loop pass about to run handles an entry of this name
MeetsDir(n) ==
    /\ pc = "dirs" /\ idx <= Len(rd[1].entries)
    /\ is_dir(rd[1].entries[idx]) /\ rd[1].entries[idx].name = n
MeetsFile(n) ==
    /\ pc = "files" /\ idx <= Len(rd[1].entries)
    /\ is_file(rd[1].entries[idx]) /\ rd[1].entries[idx].name = n
Meets(n) == MeetsDir(n) \/ MeetsFile(n)

\* C2 as stated: meeting "../x", "a/../../b" or "/etc/passwd" ends the run with
\* a path error while the filesystem is still as it was when extract_bank was
\* called; "a/./b" is accepted and resolves to the target of "a/b".
C2_Original ==
    [][/\ \A n \in {NameUpX, NameUpUpB, NameEtcPasswd} :
            Meets(n) => /\ pc' = "failed"
                        /\ err' \in {"traversal", "escape"}
                        /\ <<fsDirs', fsFiles'>> = fs0
       /\ safe_join(OutDir, NameADotB).err = ""
       /\ safe_join(OutDir, NameADotB) = safe_join(OutDir, NameAB)]_vars

\* C2 amended: meeting "../x" or "a/../../b" ends the run with the traversal
\* error and that pass writes nothing; "/etc/passwd" is not rejected: it
\* resolves to etc/passwd under the output directory, where a directory entry of
\* that name is created; "a/./b" is accepted and resolves to the target of
\* "a/b", where a file entry of that name is written when overwrite is set.
C2_Traversal ==
    [][/\ \A n \in {NameUpX, NameUpUpB} :
            Meets(n) => /\ pc' = "failed"
                        /\ err' = "traversal"
                        /\ fsDirs' = fsDirs
                        /\ fsFiles' = fsFiles
       /\ Meets(NameEtcPasswd) => err' \notin {"traversal", "escape"}
       /\ MeetsDir(NameEtcPasswd) =>
            /\ pc' = "dirs"
            /\ OutDir \o <<<<101, 116, 99>>, <<112, 97, 115, 115, 119, 100>>>> \in fsDirs'
       /\ safe_join(OutDir, NameEtcPasswd).path
            = OutDir \o <<<<101, 116, 99>>, <<112, 97, 115, 115, 119, 100>>>>
       /\ Meets(NameADotB) => err' \notin {"traversal", "escape"}
       /\ (MeetsFile(NameADotB) /\ overwrite) =>
            /\ pc' = "files"
            /\ fsFiles'[OutDir \o <<<<97>>, <<98>>>>]
                  = FpRead(bank, rd[1].entries[idx].data_off, 1)
       /\ safe_join(OutDir, NameADotB).err = ""
       /\ safe_join(OutDir, NameADotB) = safe_join(OutDir, NameAB)]_vars

\* a run that created a directory and then met "../x" and was ended by it
C2_Witness ==
    /\ pc = "failed" /\ err = "traversal"
    /\ rd[1].entries[idx].name = NameUpX
    /\ fsDirs # fs0[1]
    /\ \E i \in 1..(idx - 1) : rd[1].entries[i].name = NameEtcPasswd

\* the segments of a container-internal name: '\' taken as '/', split on '/'
RawSegments(name) == Split([i \in 1..Len(name) |-> IF name[i] = 92 THEN 47 ELSE name[i]], 47)
KeptSegments(name) ==
    LET keep(x) == x # <<>> /\ x # <<46>> IN SelectSeq(RawSegments(name), keep)

\* C3: for every name of the container, safe_join fails or returns the output
\* root joined with the name's segments less the empty and "." ones, and it
\* fails when a segment is ".."; every directory created and every file written
\* by extract_bank is the output root or below it.
C3_Containment ==
    /\ \A i \in 1..Len(rd[1].entries) :
          LET name == rd[1].entries[i].name
              sj == safe_join(OutDir, name_text(rd[1].entries[i]))
          IN  /\ (\E k \in 1..Len(RawSegments(name)) : RawSegments(name)[k] = <<46, 46>>)
                    => sj.err # ""
              /\ sj.err = "" => sj.path = OutDir \o KeptSegments(name)
    /\ pc # "start" =>
          /\ \A d \in fsDirs \ fs0[1] : IsPrefix(OutDir, d)
          /\ \A f \in DOMAIN fsFiles :
                (f \notin DOMAIN fs0[2] \/ fsFiles[f] # fs0[2][f])
                    => IsPrefix(OutDir, f) /\ f # OutDir

\* a finished run that created a directory and wrote a file, from a container
\* that names a path with a backslash
C3_Witness ==
    /\ pc = "done"
    /\ fsDirs # fs0[1]
    /\ DOMAIN fsFiles # DOMAIN fs0[2]
    /\ \E i \in 1..Len(rd[1].entries) : rd[1].entries[i].name = NameABackB

(* Parsing *)
Intersect(a, b) ==
    /\ a.data_off < b.data_off + b.data_size
    /\ b.data_off < a.data_off + a.data_size

\* C4: with a valid header, the whole index present and every name offset in
\* bounds, BankReader fails with the overlap error exactly when two different
\* records of nonzero size have intersecting ranges.
C4_Overlap ==
    (/\ rd[1].status # "none"
     /\ WholeIndex(bank)
     /\ \A i \in 1..RawCount(bank) : RawRec(bank, i).name_off < RawBlockLen(bank))
    => (rd[1].status = "overlap"
        <=> \E i, j \in 1..RawCount(bank) :
               /\ i # j
               /\ RawRec(bank, i).data_size # 0
               /\ RawRec(bank, j).data_size # 0
               /\ Intersect(RawRec(bank, i), RawRec(bank, j)))

\* the overlap error for three files of which two intersecting ones have the
\* third between them in data_offset order
C4_Witness ==
    /\ rd[1].status = "overlap"
    /\ RawCount(bank) = 3
    /\ \E i, j, k \in 1..3 :
          /\ RawRec(bank, i).data_off < RawRec(bank, k).data_off
          /\ RawRec(bank, k).data_off < RawRec(bank, j).data_off
          /\ RawRec(bank, k).data_size # 0
          /\ RawRec(bank, j).data_size # 0
          /\ Intersect(RawRec(bank, i), RawRec(bank, j))

\* C5: when the input has 16 bytes and they are not the valid header, BankReader
\* fails with the error of the first field that differs (magic, then corruption
\* check, then version) and has no entries.
C5_Header ==
    (rd[1].status # "none" /\ Len(bank) >= 16 /\ SubSeq(bank, 1, 16) # GoodHeader)
    => /\ rd[1].status =
            (IF SubSeq(bank, 1, 4) # SubSeq(GoodHeader, 1, 4) THEN "file_id"
             ELSE IF SubSeq(bank, 5, 8) # SubSeq(GoodHeader, 5, 8) THEN "corruption"
             ELSE "version")
       /\ rd[1].entries = <<>>

\* the corruption error for a header whose version differs too
C5_Witness ==
    /\ rd[1].status = "corruption"
    /\ SubSeq(bank, 9, 16) # SubSeq(GoodHeader, 9, 16)

\* the name at an offset: the bytes from it up to the first NUL or the block end
NameAt(block, off) ==
    LET n == CHOOSE k \in 0..(Len(block) - off) :
                /\ off + k = Len(block) \/ block[off + k + 1] = 0
                /\ \A j \in 0..(k - 1) : block[off + j + 1] # 0
    IN  [j \in 1..n |-> block[off + j]]

\* C8: with a valid header and the whole index present, BankReader fails with
\* the bounds error, and has no entries, exactly when a record's name_offset is
\* at or past the filename block length; a container it accepts has each
\* entry's name running from name_offset to the first NUL or the block end.
C8_Names ==
    (rd[1].status # "none" /\ WholeIndex(bank))
    => /\ rd[1].status = "bounds"
            <=> \E i \in 1..RawCount(bank) : RawRec(bank, i).name_off >= RawBlockLen(bank)
       /\ rd[1].status = "bounds" => rd[1].entries = <<>>
       /\ rd[1].status = "ok" =>
            /\ Len(rd[1].entries) = RawCount(bank)
            /\ \A i \in 1..RawCount(bank) :
                  rd[1].entries[i].name = NameAt(RawBlock(bank), RawRec(bank, i).name_off)

\* an accepted container with a name that no NUL ends
C8_Witness ==
    /\ rd[1].status = "ok"
    /\ \E i \in 1..Len(rd[1].entries) :
          /\ rd[1].entries[i].name # <<>>
          /\ RawBlock(bank)[Len(RawBlock(bank))] # 0
          /\ rd[1].entries[i].name_off + Len(rd[1].entries[i].name) = RawBlockLen(bank)

(* Payload retrieval *)
\* C7 as stated: every file entry of a constructed BankReader lies inside the
\* container file.
C7_Original ==
    \A r \in Readers :
        rd[r].status = "ok" =>
            \A i \in 1..Len(rd[r].entries) :
                is_file(rd[r].entries[i]) =>
                    rd[r].entries[i].data_off + rd[r].entries[i].data_size <= Len(bank)

\* C7 amended: a file entry's range is checked when it is retrieved, not when
\* the container is parsed: read_file_bytes on a file entry succeeds, with
\* data_size bytes, exactly when data_offset + data_size <= the file length.
C7_RangeAtRead ==
    \A r \in Readers :
        (rd[r].status = "ok" /\ rd[r].last # 0 /\ is_file(rd[r].entries[rd[r].last]))
        => LET e == rd[r].entries[rd[r].last] IN
           /\ rd[r].ret.ok <=> e.data_off + e.data_size <= Len(bank)
           /\ rd[r].ret.ok => Len(rd[r].ret.data) = e.data_size

\* a constructed reader whose retrieval of a file running past the end failed
C7_Witness ==
    \E r \in Readers :
        /\ rd[r].status = "ok" /\ rd[r].last # 0
        /\ is_file(rd[r].entries[rd[r].last])
        /\ rd[r].entries[rd[r].last].data_off + rd[r].entries[rd[r].last].data_size
              > Len(bank)
        /\ ~rd[r].ret.ok

\* C10: whatever calls came before on this reader or another, read_file_bytes
\* returns the container's bytes [data_offset, data_offset + data_size) for a
\* file entry, fails when the file holds fewer, and returns no bytes for a
\* directory entry.
C10_Retrieval ==
    \A r \in Readers :
        (rd[r].status = "ok" /\ rd[r].last # 0)
        => LET e == rd[r].entries[rd[r].last] IN
           IF e.data_size = 0 THEN rd[r].ret = [ok |-> TRUE, data |-> <<>>]
           ELSE IF e.data_off + e.data_size > Len(bank) THEN ~rd[r].ret.ok
           ELSE /\ rd[r].ret.ok
                /\ rd[r].ret.data = [k \in 1..e.data_size |-> bank[e.data_off + k]]

\* both readers have answered calls, reader 1 for a file entry from a handle
\* that an earlier call had left elsewhere than at the entry's data_offset
C10_Witness ==
    /\ rd[1].status = "ok" /\ rd[2].status = "ok"
    /\ rd[1].last # 0 /\ rd[2].last # 0 /\ rd[1].last # rd[2].last
    /\ is_file(rd[1].entries[rd[1].last])
    /\ rd[1].ret.ok
    /\ rd[1].from # rd[1].entries[rd[1].last].data_off
    /\ rd[1].from # BankReaderParse(bank).pos

====
